---- MODULE Spec2Model ----
(***************************************************************************)
(* The resume-processing pipeline: upload -> Parse queue -> Parser ->      *)
(* Extract queue -> Extractor -> Score queue -> Scorer.                    *)
(*                                                                         *)
(* One invocation of a stage worker is modelled as: Deliver (the platform  *)
(* hands a batch to the worker), one step per record of the batch (the     *)
(* body of the worker's for loop), a finishing step (the code after the    *)
(* loop, wrapped by libs/handler.js), and Ack (the platform reads the      *)
(* worker's response and deletes or redelivers the messages).              *)
(*                                                                         *)
(* Every call to an external collaborator (status store, resume store,     *)
(* score store, queue, object store, inference service) either succeeds    *)
(* or throws; a step chooses the first call that throws (0 = none).        *)
(*                                                                         *)
(* StepSpec follows the same workers one awaited call at a time, with      *)
(* several instances running at once, for what depends on interleaving.    *)
(***************************************************************************)
EXTENDS Integers, Sequences, FiniteSets, TLC

\* ------------------------------------------------------------------ bounds
MaxUploads == 1
MaxExternal == 1
MaxBatch == 2
MaxRedeliver == 1
MaxExtPids == 1
MaxConcurrent == 1
MaxInstances == 2
MaxOver == 60
MaxLate == 5
MaxItems == 60

\* ------------------------------------------------------------- vocabulary
Stages == {"parser", "extractor", "scorer"}

ExpectedType(s) ==
    CASE s = "parser" -> "RESUME_PROCESSING"
      [] s = "extractor" -> "SKILL_EXTRACTION"
      [] s = "scorer" -> "SCORING"

PROCESSING_STATUS ==
    [PENDING |-> "PENDING", PARSING |-> "PARSING",
     EXTRACTING_SKILLS |-> "EXTRACTING_SKILLS", SCORING |-> "SCORING",
     COMPLETED |-> "COMPLETED", FAILED |-> "FAILED"]

\* The value of a field that is missing from a message or an item (undefined).
NoId == 0

\* Processing ids: those uuidv4() returns in the Parser are 1..MaxPids, in
\* order of generation; external producers use their own.
MaxPids == (MaxUploads + MaxExternal) * (MaxRedeliver + 1)
ExtPids == (MaxPids + 1)..(MaxPids + MaxExtPids)
Pids == 1..(MaxPids + MaxExtPids)
ResumeIds == 1..MaxUploads
JobId == "J1"

NoItem == [status |-> "NONE", resumeId |-> NoId, attrs |-> {}]
NoResume == [status |-> "NONE", attrs |-> {}, processingId |-> NoId]
NoScore == [overallScore |-> 0, confidence |-> "none"]
NoResponse == [statusCode |-> 0]

VARIABLES
    queue,              \* stage -> set of visible messages of its queue
    batch,              \* stage -> event.Records of the running invocation
    pc,                 \* stage -> "idle" | "running" | "returned"
    idx,                \* stage -> loop counter i
    batchItemFailures,  \* stage -> the worker's batchItemFailures list
    processingResults,  \* stage -> the worker's processingResults list
    response,           \* stage -> what the handler handed back
    statusStore,        \* processing-queue table: processingId -> item
    statusWrites,       \* processingId -> status before the last step that wrote it,
                        \*   then the statuses that step wrote, in order
    resumes,            \* resumes table: resumeId -> item
    scores,             \* match-scores table: the set of its items
    nextMsg,            \* message ids handed out so far
    nextPid,            \* uuidv4() calls of the Parser so far
    uploads,            \* uploads accepted so far
    redelivered,        \* visibility timeouts so far
    outcomes,           \* stage -> outcome of each record handled so far
    fwd,                \* stage -> ids of records whose derived message was sent
    advanced,           \* stage -> ids of records whose status was advanced
    failedWrites,       \* stage -> the FAILED writes of the catch blocks: the record's
                        \*   id and whether the status store accepted the write
    retry,              \* one call of extractSkillsFromText: its locals and trace
    inst,               \* invocation -> a worker instance followed call by call
    helper              \* one call of a helper function followed step by step

vars == <<queue, batch, pc, idx, batchItemFailures, processingResults, response,
          statusStore, statusWrites, resumes, scores, nextMsg, nextPid, uploads,
          redelivered, outcomes, fwd, advanced, failedWrites, retry, inst, helper>>

stores == <<statusStore, statusWrites, resumes, scores>>
counters == <<nextMsg, nextPid, uploads, redelivered>>
ghosts == <<outcomes, fwd, advanced, failedWrites>>
locals == <<batch, pc, idx, batchItemFailures, processingResults, response>>

\* ---------------------------------------------------------------- helpers
Range(q) == {q[i] : i \in 1..Len(q)}

\* All orderings of the set S as sequences without repetition.
Perms(S) ==
    {q \in [1..Cardinality(S) -> S] : \A i, j \in 1..Cardinality(S) : q[i] = q[j] => i = j}

\* A try block that goes on with its later calls after a call has thrown.
PassedOthers(f, k) == f = 0 \/ f # k

\* A call to a collaborator: the k-th call of a step succeeds when the step's
\* first failing call f is none (0) or a later one.
Passed(f, k) == f = 0 \/ f > k

\* PutRequest / PutCommand: the item replaces whatever is stored under the key.
PutItem(store, id, status, resumeId, attrs) ==
    [store EXCEPT ![id] = [status |-> status, resumeId |-> resumeId, attrs |-> attrs]]

\* UpdateCommand with SET: named fields are overwritten, the others are kept;
\* the item is created when it does not exist.
UpdateItem(store, id, status, attrs) ==
    [store EXCEPT ![id] = [status |-> status, resumeId |-> @.resumeId,
                           attrs |-> @.attrs \cup attrs]]

UpdateResume(tbl, id, status, attrs) ==
    [tbl EXCEPT ![id] = [status |-> status, attrs |-> @.attrs \cup attrs,
                         processingId |-> @.processingId]]

PutResume(tbl, id, status, attrs) ==
    [tbl EXCEPT ![id] = [status |-> status, attrs |-> attrs, processingId |-> NoId]]

\* The trail of a step that writes the statuses `written`, in order, under id.
Logged(log, store, id, written) ==
    IF written = <<>> THEN log ELSE [log EXCEPT ![id] = <<store[id].status>> \o written]

Wrote(cond, status) == IF cond THEN <<status>> ELSE <<>>

\* ------------------------------------------------------------ libs/logger.js
buildResponse(statusCode, body) ==
    [statusCode |-> statusCode, headers |-> "cors", body |-> body]

\* ----------------------------------------------------------- libs/handler.js
\* handler(lambda): the lambda's return value is wrapped as {data: ...}; a
\* thrown error becomes a 500 response. The handler itself never throws.
handlerSuccess(responseBody) ==
    buildResponse(IF "statusCode" \in DOMAIN responseBody
                    THEN responseBody.statusCode ELSE 200,
                  [data |-> responseBody])

handlerFailure ==
    buildResponse(500, [error |-> "message"])

\* ---------------------------------------------------------- libs/queue.lib.js
Message(id, type, resumeId, processingId, hasText, parent) ==
    [id |-> id, type |-> type, bodyOk |-> TRUE, resumeId |-> resumeId,
     jobId |-> JobId, processingId |-> processingId, hasText |-> hasText,
     parent |-> parent]

\* sendResumeForProcessing: the body has no processingId field.
ResumeProcessingMessage(id, resumeData) ==
    Message(id, "RESUME_PROCESSING", resumeData.resumeId, NoId, FALSE, 0)

\* sendForSkillExtraction: processingId is copied from the argument; the text
\* travels as parsedContent, so the body has no parsedText field.
SkillExtractionMessage(id, parsedResumeData, parent) ==
    Message(id, "SKILL_EXTRACTION", parsedResumeData.resumeId,
            parsedResumeData.processingId, FALSE, parent)

\* sendForScoring
ScoringMessage(id, skillData, parent) ==
    Message(id, "SCORING", skillData.resumeId, skillData.processingId, FALSE, parent)

\* ------------------------------------------------------------------- Init
\* Messages other producers have put on the queues (a queue may be shared or
\* misrouted): message i is absent, a well-formed message of the stage's type
\* carrying the producer's own processingId, a message of a foreign type, or
\* a body that is not JSON.
ExternalKinds == {"absent", "valid", "mistyped", "garbled"}

ExternalChoices ==
    {c \in [stage : Stages, kind : ExternalKinds, processingId : ExtPids] :
        /\ c.kind = "absent" => c.stage = "parser"
        /\ c.kind \in {"absent", "garbled"} => c.processingId = MaxPids + 1}

ExternalMessage(i, c) ==
    CASE c.kind = "valid" ->
           Message(i, ExpectedType(c.stage), 1, c.processingId, TRUE, 0)
      [] c.kind = "mistyped" ->
           Message(i, "OTHER", 1, c.processingId, TRUE, 0)
      [] OTHER ->
           [Message(i, "OTHER", NoId, NoId, FALSE, 0) EXCEPT !.bodyOk = FALSE]

StageRank(s) == CASE s = "parser" -> 1 [] s = "extractor" -> 2 [] s = "scorer" -> 3

KindRank(k) == CASE k = "absent" -> 0 [] k = "valid" -> 1 [] k = "mistyped" -> 2 [] k = "garbled" -> 3

\* Message ids are labels: of two assignments that differ only in which
\* message got which id, one is kept.
Canonical(choice) ==
    \A i \in 1..(MaxExternal - 1) :
        LET a == choice[i]
            b == choice[i + 1]
        IN \/ StageRank(a.stage) < StageRank(b.stage)
           \/ /\ a.stage = b.stage
              /\ \/ KindRank(a.kind) < KindRank(b.kind)
                 \/ a.kind = b.kind /\ a.processingId <= b.processingId

ExternalQueues(choice) ==
    [s \in Stages |->
       {ExternalMessage(i, choice[i]) :
          i \in {j \in 1..MaxExternal :
                   choice[j].kind # "absent" /\ choice[j].stage = s}}]

\* A worker instance that has not been invoked.
NoInstance ==
    [st |-> "free", stage |-> "none", records |-> <<>>, i |-> 0, at |-> 0, pid |-> NoId,
     results |-> <<>>, failures |-> <<>>, finished |-> {}, score |-> NoScore,
     log |-> <<>>, response |-> NoResponse]

\* No invocation is running and the tables are empty.
Quiet ==
    /\ batch = [s \in Stages |-> <<>>]
    /\ pc = [s \in Stages |-> "idle"]
    /\ idx = [s \in Stages |-> 0]
    /\ batchItemFailures = [s \in Stages |-> <<>>]
    /\ processingResults = [s \in Stages |-> <<>>]
    /\ response = [s \in Stages |-> NoResponse]
    /\ statusStore = [p \in Pids |-> NoItem]
    /\ statusWrites = [p \in Pids |-> <<>>]
    /\ resumes = [r \in ResumeIds |-> NoResume]
    /\ scores = {}
    /\ nextMsg = MaxExternal
    /\ nextPid = 0
    /\ uploads = 0
    /\ redelivered = 0
    /\ outcomes = [s \in Stages |-> <<>>]
    /\ fwd = [s \in Stages |-> {}]
    /\ advanced = [s \in Stages |-> {}]
    /\ failedWrites = [s \in Stages |-> {}]
    /\ inst = [k \in 1..MaxInstances |-> NoInstance]

\* No call of extractSkillsFromText is being followed.
NoRetry == [pc |-> "none"]

\* No helper function is being followed.
NoHelper == [pc |-> "none"]

Init ==
    /\ queue \in {ExternalQueues(choice) : choice \in {c \in [1..MaxExternal -> ExternalChoices] : Canonical(c)}}
    /\ Quiet
    /\ retry = NoRetry
    /\ helper = NoHelper

\* ------------------------------------------------- upload handler (producer)
\* The calls of the upload handler after validation, in order:
\* uploadToS3, storeResumeRecord, sendMessage, updateProcessingStatus.
Upload(f) ==
    /\ uploads < MaxUploads
    /\ \A s \in Stages : pc[s] = "idle"
    /\ LET resumeId == uploads + 1
           id == nextMsg + 1
       IN /\ uploads' = uploads + 1
          /\ resumes' =
               LET stored == IF Passed(f, 2)
                               THEN PutResume(resumes, resumeId, "UPLOADED",
                                              {"jobId", "candidateEmail", "fileName", "s3Key"})
                               ELSE resumes
               IN IF Passed(f, 4)
                    THEN UpdateResume(stored, resumeId, "PROCESSING", {"processingStartedAt"})
                    ELSE stored
          /\ queue' = IF Passed(f, 3)
                        THEN [queue EXCEPT !["parser"] =
                                @ \cup {ResumeProcessingMessage(id, [resumeId |-> resumeId])}]
                        ELSE queue
          /\ nextMsg' = IF Passed(f, 3) THEN id ELSE nextMsg
    /\ UNCHANGED <<locals, statusStore, statusWrites, scores, nextPid, redelivered, ghosts,
                   retry, inst, helper>>

\* ------------------------------------------------------------- the platform
\* The event source hands a batch of visible messages to an idle worker.
Deliver(s, records) ==
    /\ pc[s] = "idle"
    /\ Cardinality({t \in Stages : pc[t] # "idle"}) < MaxConcurrent
    /\ Range(records) \subseteq queue[s]
    /\ s = "parser" => nextPid + Len(records) <= MaxPids
    /\ queue' = [queue EXCEPT ![s] = @ \ Range(records)]
    /\ batch' = [batch EXCEPT ![s] = records]
    /\ pc' = [pc EXCEPT ![s] = "running"]
    /\ UNCHANGED <<idx, batchItemFailures, processingResults, response, stores,
                   counters, ghosts, retry, inst, helper>>

\* What the event source reads from a worker's response: the top-level
\* batchItemFailures list, when there is one.
ReportedItemFailures(resp) ==
    IF "batchItemFailures" \in DOMAIN resp
      THEN {resp.batchItemFailures[i].itemIdentifier : i \in 1..Len(resp.batchItemFailures)}
      ELSE {}

\* The messages the event source leaves on the queue after an invocation.
NotDeleted(resp, records) ==
    {m \in Range(records) : m.id \in ReportedItemFailures(resp)}

\* The invocation is over: the event source deletes the messages of the batch,
\* except those the response reports as failed. Delivery is at-least-once:
\* the messages in `again` became visible again before they were deleted.
Ack(s, again) ==
    /\ pc[s] = "returned"
    /\ redelivered + Cardinality(again) <= MaxRedeliver
    /\ redelivered' = redelivered + Cardinality(again)
    /\ queue' = [queue EXCEPT ![s] = @ \cup NotDeleted(response[s], batch[s]) \cup again]
    /\ pc' = [pc EXCEPT ![s] = "idle"]
    /\ batch' = [batch EXCEPT ![s] = <<>>]
    /\ idx' = [idx EXCEPT ![s] = 0]
    /\ batchItemFailures' = [batchItemFailures EXCEPT ![s] = <<>>]
    /\ processingResults' = [processingResults EXCEPT ![s] = <<>>]
    /\ response' = [response EXCEPT ![s] = NoResponse]
    /\ outcomes' = [outcomes EXCEPT ![s] = <<>>]
    /\ fwd' = [fwd EXCEPT ![s] = {}]
    /\ advanced' = [advanced EXCEPT ![s] = {}]
    /\ failedWrites' = [failedWrites EXCEPT ![s] = {}]
    /\ UNCHANGED <<stores, nextMsg, nextPid, uploads, retry, inst, helper>>

\* ------------------------------------------------ what every worker shares
Record(s) == batch[s][idx[s] + 1]

InLoop(s) == pc[s] = "running" /\ idx[s] < Len(batch[s])

AfterLoop(s) == pc[s] = "running" /\ idx[s] = Len(batch[s])

\* An error leaves the worker's outer try: the handler turns it into a 500.
Throw(s) ==
    /\ pc' = [pc EXCEPT ![s] = "returned"]
    /\ response' = [response EXCEPT ![s] = handlerFailure]

Return(s, responseBody) ==
    /\ pc' = [pc EXCEPT ![s] = "returned"]
    /\ response' = [response EXCEPT ![s] = handlerSuccess(responseBody)]

\* JSON.parse(record.body) throws, outside the per-record try block.
BodyParseError(s) ==
    /\ InLoop(s)
    /\ ~Record(s).bodyOk
    /\ Throw(s)
    /\ outcomes' = [outcomes EXCEPT ![s] = Append(@, "aborted")]
    /\ UNCHANGED <<queue, batch, idx, batchItemFailures, processingResults,
                   stores, counters, fwd, advanced, failedWrites, retry, inst, helper>>

\* messageBody.type is not the worker's type: continue.
Skip(s) ==
    /\ InLoop(s)
    /\ Record(s).bodyOk
    /\ Record(s).type # ExpectedType(s)
    /\ idx' = [idx EXCEPT ![s] = @ + 1]
    /\ outcomes' = [outcomes EXCEPT ![s] = Append(@, "skipped")]
    /\ UNCHANGED <<queue, batch, pc, batchItemFailures, processingResults, response,
                   stores, counters, fwd, advanced, failedWrites, retry, inst, helper>>

Accepts(s) == InLoop(s) /\ Record(s).bodyOk /\ Record(s).type = ExpectedType(s)

ItemFailure(record) == [itemIdentifier |-> record.id]

\* ------------------------------------------- Resume Parser Worker: the loop
\* One pass of the for loop over a RESUME_PROCESSING record. The calls, in
\* order: 1 updateProcessingStatuses(PARSING), 2 parsePDFFromS3,
\* 3 sendMessage (in sendForSkillExtraction), 4 updateProcessingStatus of the
\* resume (in sendForSkillExtraction). f is the first call that throws.
ParserCalls == 4

ParserRecord(f) ==
    LET s == "parser"
        record == Record(s)
        processingId == nextPid + 1
        resumeData == [msg |-> record.id, resumeId |-> record.resumeId,
                       processingId |-> processingId]
        \* the argument of sendForSkillExtraction has no processingId
        parsedResumeData == [resumeId |-> record.resumeId, processingId |-> NoId]
        id == nextMsg + 1
    IN /\ Accepts(s)
       /\ nextPid' = processingId
       /\ statusStore' = IF Passed(f, 1)
                           THEN PutItem(statusStore, processingId, PROCESSING_STATUS.PARSING,
                                        record.resumeId,
                                        {"resumeId", "jobId", "parsingStartedAt"})
                           ELSE statusStore
       /\ statusWrites' = Logged(statusWrites, statusStore, processingId,
                                 Wrote(Passed(f, 1), PROCESSING_STATUS.PARSING))
       /\ processingResults' = IF Passed(f, 2)
                                 THEN [processingResults EXCEPT ![s] = Append(@, resumeData)]
                                 ELSE processingResults
       /\ queue' = IF Passed(f, 3)
                     THEN [queue EXCEPT !["extractor"] =
                             @ \cup {SkillExtractionMessage(id, parsedResumeData, record.id)}]
                     ELSE queue
       /\ nextMsg' = IF Passed(f, 3) THEN id ELSE nextMsg
       /\ fwd' = IF Passed(f, 3) THEN [fwd EXCEPT ![s] = @ \cup {record.id}] ELSE fwd
       /\ resumes' = IF Passed(f, 4)
                       THEN UpdateResume(resumes, record.resumeId, "SKILL_EXTRACTION",
                                         {"skillExtractionStartedAt"})
                       ELSE resumes
       \* catch (error): only the failure list is extended
       /\ batchItemFailures' = IF f # 0
                                 THEN [batchItemFailures EXCEPT ![s] =
                                         Append(@, ItemFailure(record))]
                                 ELSE batchItemFailures
       /\ outcomes' = [outcomes EXCEPT ![s] = Append(@, IF f = 0 THEN "ok" ELSE "failed")]
       /\ idx' = [idx EXCEPT ![s] = @ + 1]
       /\ UNCHANGED <<batch, pc, response, scores, uploads, redelivered,
                      advanced, failedWrites, retry, inst, helper>>

\* ---------------------------------- Resume Parser Worker: after the loop
\* storeParsedResumes(processingResults), then the EXTRACTING_SKILLS status of
\* every entry of processingResults, then return {batchItemFailures}.
\* f: 1 storeParsedResumes throws, 2 updateProcessingStatuses throws.
ParserFinishCalls == 2

\* The last entry of the list for resume r: the items are built in list
\* order, so a later one stands for the resume.
LastFor(results, r) ==
    LET at == {i \in 1..Len(results) : results[i].resumeId = r}
    IN results[CHOOSE i \in at : \A j \in at : j <= i]

ParserStored(tbl, results) ==
    [r \in ResumeIds |->
       IF \E i \in 1..Len(results) : results[i].resumeId = r
         THEN [status |-> "PARSED",
               attrs |-> {"jobId", "candidateEmail", "s3Key", "parsedText", "processingId"},
               processingId |-> LastFor(results, r).processingId]
         ELSE tbl[r]]

ParserFinalStatuses(store, results) ==
    [p \in Pids |->
       IF \E i \in 1..Len(results) : results[i].processingId = p
         THEN [status |-> PROCESSING_STATUS.EXTRACTING_SKILLS, resumeId |-> NoId,
               attrs |-> {"parsingCompletedAt"}]
         ELSE store[p]]

ParserFinalLog(log, store, results) ==
    [p \in Pids |->
       IF \E i \in 1..Len(results) : results[i].processingId = p
         THEN <<store[p].status, PROCESSING_STATUS.EXTRACTING_SKILLS>>
         ELSE log[p]]

ParserFinish(f) ==
    LET s == "parser"
        results == processingResults[s]
    IN /\ AfterLoop(s)
       /\ Len(results) = 0 => f = 0
       /\ resumes' = IF Passed(f, 1) THEN ParserStored(resumes, results) ELSE resumes
       /\ statusStore' = IF Passed(f, 2)
                           THEN ParserFinalStatuses(statusStore, results)
                           ELSE statusStore
       /\ statusWrites' = IF Passed(f, 2)
                            THEN ParserFinalLog(statusWrites, statusStore, results)
                            ELSE statusWrites
       /\ advanced' = IF Passed(f, 2)
                        THEN [advanced EXCEPT ![s] = {results[i].msg : i \in 1..Len(results)}]
                        ELSE advanced
       /\ IF f = 0
            THEN Return(s, [batchItemFailures |-> batchItemFailures[s]])
            ELSE Throw(s)
       /\ UNCHANGED <<queue, batch, idx, batchItemFailures, processingResults, scores,
                      counters, outcomes, fwd, failedWrites, retry, inst, helper>>

\* ---------------------------------------- Skill Extraction Worker: the loop
\* One pass of the for loop over a SKILL_EXTRACTION record. The calls, in
\* order: 1 updateProcessingStatuses(EXTRACTING_SKILLS), 2 extractSkillsFromText,
\* 3 getJobRequirements, 4 updateProcessingStatuses(COMPLETED), 5 sendMessage
\* (in sendForScoring), 6 updateProcessingStatus of the resume (in
\* sendForScoring). f is the first call the environment makes fail, g the
\* first call that throws; failedWriteOk tells whether the FAILED write of the
\* catch block succeeds.
ExtractorCalls == 6

\* The first call of the loop body that throws, given the first call f the
\* environment makes fail (0 = none): a write under an undefined key cannot
\* succeed, and extractSkillsFromText reads parsedText.length, which throws
\* when the body has no parsedText.
ExtractorFirstFailure(record, f) ==
    LET own == IF record.processingId = NoId THEN 1
               ELSE IF ~record.hasText THEN 2 ELSE 0
    IN IF own # 0 /\ (f = 0 \/ own < f) THEN own ELSE f

ExtractorRecord(f, failedWriteOk) ==
    LET s == "extractor"
        record == Record(s)
        processingId == record.processingId
        g == ExtractorFirstFailure(record, f)
        id == nextMsg + 1
        skillData == [resumeId |-> record.resumeId, processingId |-> processingId]
        \* the catch block writes FAILED only when the body has a processingId
        writesFailed == g # 0 /\ processingId # NoId /\ failedWriteOk
        st1 == IF Passed(g, 1)
                 THEN PutItem(statusStore, processingId,
                              PROCESSING_STATUS.EXTRACTING_SKILLS, NoId,
                              {"skillExtractionStartedAt"})
                 ELSE statusStore
        st2 == IF Passed(g, 4)
                 THEN PutItem(st1, processingId, PROCESSING_STATUS.COMPLETED, NoId,
                              {"skillExtractionCompletedAt", "skillsCount"})
                 ELSE st1
        written == Wrote(Passed(g, 1), PROCESSING_STATUS.EXTRACTING_SKILLS)
                   \o Wrote(Passed(g, 4), PROCESSING_STATUS.COMPLETED)
                   \o Wrote(writesFailed, PROCESSING_STATUS.FAILED)
    IN /\ Accepts(s)
       /\ g = 0 => failedWriteOk
       /\ processingId = NoId => failedWriteOk
       /\ statusStore' = IF writesFailed
                           THEN PutItem(st2, processingId, PROCESSING_STATUS.FAILED, NoId,
                                        {"error", "failedAt"})
                           ELSE st2
       /\ statusWrites' = Logged(statusWrites, statusStore, processingId, written)
       /\ processingResults' =
            IF Passed(g, 3)
              THEN [processingResults EXCEPT ![s] =
                      Append(@, [msg |-> record.id, resumeId |-> record.resumeId,
                                 processingId |-> processingId])]
              ELSE processingResults
       /\ queue' = IF Passed(g, 5)
                     THEN [queue EXCEPT !["scorer"] =
                             @ \cup {ScoringMessage(id, skillData, record.id)}]
                     ELSE queue
       /\ nextMsg' = IF Passed(g, 5) THEN id ELSE nextMsg
       /\ fwd' = IF Passed(g, 5) THEN [fwd EXCEPT ![s] = @ \cup {record.id}] ELSE fwd
       /\ advanced' = IF Passed(g, 4)
                        THEN [advanced EXCEPT ![s] = @ \cup {record.id}]
                        ELSE advanced
       /\ resumes' = IF Passed(g, 6)
                       THEN UpdateResume(resumes, record.resumeId, "SCORING",
                                         {"scoringStartedAt"})
                       ELSE resumes
       /\ batchItemFailures' = IF g # 0
                                 THEN [batchItemFailures EXCEPT ![s] =
                                         Append(@, ItemFailure(record))]
                                 ELSE batchItemFailures
       /\ failedWrites' = IF g # 0 /\ processingId # NoId
                            THEN [failedWrites EXCEPT ![s] =
                                    @ \cup {[id |-> record.id, ok |-> failedWriteOk]}]
                            ELSE failedWrites
       /\ outcomes' = [outcomes EXCEPT ![s] = Append(@, IF g = 0 THEN "ok" ELSE "failed")]
       /\ idx' = [idx EXCEPT ![s] = @ + 1]
       /\ UNCHANGED <<batch, pc, response, scores, nextPid, uploads, redelivered, retry, inst, helper>>

\* ------------------------------- Skill Extraction Worker: after the loop
\* updateResumesWithSkills(processingResults), then the summary is returned.
\* updateResumesWithSkills called without the guard on an empty list, writing
\* every resume.
ExtractorStoredUnguarded(tbl, results) ==
    [r \in ResumeIds |->
       [status |-> "SKILLS_EXTRACTED", attrs |-> {"extractedSkills", "skillsExtractedAt"},
        processingId |-> NoId]]

ExtractorStored(tbl, results) ==
    [r \in ResumeIds |->
       IF \E i \in 1..Len(results) : results[i].resumeId = r
         THEN [status |-> "SKILLS_EXTRACTED",
               attrs |-> {"extractedSkills", "skillsExtractedAt"}, processingId |-> NoId]
         ELSE tbl[r]]

ExtractorSummary(records, failures) ==
    [statusCode |-> 200,
     body |-> [message |-> "Skill extraction completed",
               processedCount |-> Len(records) - Len(failures),
               failedCount |-> Len(failures),
               batchItemFailures |-> failures]]

ExtractorFinish(ok) ==
    LET s == "extractor"
        results == processingResults[s]
    IN /\ AfterLoop(s)
       /\ Len(results) = 0 => ok
       /\ resumes' = IF ok THEN ExtractorStored(resumes, results) ELSE resumes
       /\ IF ok
            THEN Return(s, ExtractorSummary(batch[s], batchItemFailures[s]))
            ELSE Throw(s)
       /\ UNCHANGED <<queue, batch, idx, batchItemFailures, processingResults,
                      statusStore, statusWrites, scores, counters, ghosts, retry, inst, helper>>

\* ------------------------------------------------- Scoring Worker: the loop
\* One pass of the for loop over a SCORING record. The calls, in order:
\* 1 updateProcessingStatus(SCORING), 2 model.invoke (in calculateMatchScore),
\* 3 storeMatchScore, 4 updateResumeStatus, 5 updateProcessingStatus(COMPLETED).
\* f is the first call that throws; reply is what the inference service
\* answered; failedWriteOk tells whether the FAILED write of the catch block
\* succeeds (it is not inside a try of its own).
ScorerCalls == 5

Replies == {"json", "malformed"}

\* The score object a well-formed reply carries.
RepliedScore == [overallScore |-> 85, confidence |-> "0.9"]

\* A fallback that keeps the confidence of a real answer.
calculateMatchScoreConfident(reply) ==
    IF reply = "json" THEN RepliedScore ELSE [overallScore |-> 50, confidence |-> "0.9"]

\* calculateMatchScore: a reply that does not parse yields the fallback score.
calculateMatchScore(reply) ==
    IF reply = "json" THEN RepliedScore ELSE [overallScore |-> 50, confidence |-> "0.3"]

\* storeMatchScore: a put under the id `${resumeId}-${jobId}`.
ScoreId(resumeId, jobId) == <<resumeId, jobId>>

\* A put under an id of its own for every write.
storeMatchScoreAppended(tbl, record, score) ==
    tbl \cup {[id |-> <<record.resumeId, record.jobId, Cardinality(tbl)>>,
               resumeId |-> record.resumeId, jobId |-> record.jobId,
               overallScore |-> score.overallScore, confidence |-> score.confidence]}

storeMatchScore(tbl, record, score) ==
    {it \in tbl : it.id # ScoreId(record.resumeId, record.jobId)}
        \cup {[id |-> ScoreId(record.resumeId, record.jobId),
                resumeId |-> record.resumeId, jobId |-> record.jobId,
                overallScore |-> score.overallScore, confidence |-> score.confidence]}

\* The score stored for a resume under the job of the model, if any.
ScoreOf(tbl, resumeId) ==
    LET its == {it \in tbl : it.id = ScoreId(resumeId, JobId)}
    IN IF its = {} THEN NoScore
       ELSE LET it == CHOOSE x \in its : TRUE
            IN [overallScore |-> it.overallScore, confidence |-> it.confidence]

ScorerRecord(f, reply, failedWriteOk) ==
    LET s == "scorer"
        record == Record(s)
        processingId == record.processingId
        writesFailed == f # 0 /\ failedWriteOk
        st1 == IF Passed(f, 1)
                 THEN UpdateItem(statusStore, processingId, PROCESSING_STATUS.SCORING,
                                 {"scoringStartedAt"})
                 ELSE statusStore
        st2 == IF Passed(f, 5)
                 THEN UpdateItem(st1, processingId, PROCESSING_STATUS.COMPLETED,
                                 {"scoringCompletedAt", "finalScore"})
                 ELSE st1
        written == Wrote(Passed(f, 1), PROCESSING_STATUS.SCORING)
                   \o Wrote(Passed(f, 5), PROCESSING_STATUS.COMPLETED)
                   \o Wrote(writesFailed, PROCESSING_STATUS.FAILED)
    IN /\ Accepts(s)
       \* a write under an undefined key cannot succeed
       /\ processingId = NoId => f = 1 /\ ~failedWriteOk
       /\ f = 0 => failedWriteOk
       /\ ~Passed(f, 2) => reply = "json"
       /\ statusStore' = IF writesFailed
                           THEN UpdateItem(st2, processingId, PROCESSING_STATUS.FAILED,
                                           {"error", "failedAt"})
                           ELSE st2
       /\ statusWrites' = Logged(statusWrites, statusStore, processingId, written)
       /\ scores' = IF Passed(f, 3)
                      THEN storeMatchScore(scores, record, calculateMatchScore(reply))
                      ELSE scores
       /\ resumes' = IF Passed(f, 4)
                       THEN UpdateResume(resumes, record.resumeId, "SCORED",
                                         {"matchScore", "scoredAt"})
                       ELSE resumes
       /\ advanced' = IF Passed(f, 5)
                        THEN [advanced EXCEPT ![s] = @ \cup {record.id}]
                        ELSE advanced
       /\ failedWrites' = IF f # 0
                            THEN [failedWrites EXCEPT ![s] =
                                    @ \cup {[id |-> record.id, ok |-> failedWriteOk]}]
                            ELSE failedWrites
       /\ IF f # 0 /\ ~failedWriteOk
            THEN /\ Throw(s)
                 /\ outcomes' = [outcomes EXCEPT ![s] = Append(@, "aborted")]
                 /\ idx' = idx
            ELSE /\ outcomes' = [outcomes EXCEPT ![s] =
                                   Append(@, IF f = 0 THEN "ok" ELSE "failed")]
                 /\ idx' = [idx EXCEPT ![s] = @ + 1]
                 /\ UNCHANGED <<pc, response>>
       /\ UNCHANGED <<queue, batch, batchItemFailures, processingResults, counters, fwd,
                      retry, inst, helper>>

\* -------------------------------------------- Scoring Worker: after the loop
ScorerSummary(records) ==
    [statusCode |-> 200,
     body |-> [message |-> "Scoring completed", processedCount |-> Len(records)]]

ScorerFinish ==
    LET s == "scorer"
    IN /\ AfterLoop(s)
       /\ Return(s, ScorerSummary(batch[s]))
       /\ UNCHANGED <<queue, batch, idx, batchItemFailures, processingResults,
                      stores, counters, ghosts, retry, inst, helper>>

\* The event source picks up to MaxBatch visible messages, in any order.
DeliverBatch ==
    \E s \in Stages : \E S \in SUBSET queue[s] :
        /\ S # {}
        /\ Cardinality(S) <= MaxBatch
        /\ \E records \in Perms(S) : Deliver(s, records)

Acknowledge ==
    \E s \in Stages : \E again \in SUBSET Range(batch[s]) : Ack(s, again)

UploadCalls == 4

Next ==
    \/ \E f \in 0..UploadCalls : Upload(f)
    \/ DeliverBatch
    \/ Acknowledge
    \/ \E s \in Stages : BodyParseError(s)
    \/ \E s \in Stages : Skip(s)
    \/ \E f \in 0..ParserCalls : ParserRecord(f)
    \/ \E f \in 0..ParserFinishCalls : ParserFinish(f)
    \/ \E f \in 0..ExtractorCalls, failedWriteOk \in BOOLEAN : ExtractorRecord(f, failedWriteOk)
    \/ \E ok \in BOOLEAN : ExtractorFinish(ok)
    \/ \E f \in 0..ScorerCalls, reply \in Replies, failedWriteOk \in BOOLEAN :
          ScorerRecord(f, reply, failedWriteOk)
    \/ ScorerFinish

Spec == Init /\ [][Next]_vars

\* ------------------------------------------- the pipeline when nothing fails
\* Every store, queue and inference call succeeds and every reply is a JSON
\* object; queued messages are delivered and running invocations proceed.
HealthyNext ==
    \/ Upload(0)
    \/ DeliverBatch
    \/ Acknowledge
    \/ \E s \in Stages : BodyParseError(s)
    \/ \E s \in Stages : Skip(s)
    \/ ParserRecord(0)
    \/ ParserFinish(0)
    \/ ExtractorRecord(0, TRUE)
    \/ ExtractorFinish(TRUE)
    \/ ScorerRecord(0, "json", TRUE)
    \/ ScorerFinish

HealthySpec == Init /\ [][HealthyNext]_vars /\ WF_vars(HealthyNext)

\* --------------------------------------------------- invocations on no message
\* A worker is invoked with event.Records = []: the loop body never runs.
DeliverEmpty == \E s \in Stages : Deliver(s, <<>>)

EmptyBatchNext ==
    \/ \E f \in 0..UploadCalls : Upload(f)
    \/ DeliverEmpty
    \/ \E f \in 0..ParserFinishCalls : ParserFinish(f)
    \/ \E ok \in BOOLEAN : ExtractorFinish(ok)
    \/ ScorerFinish
    \/ Acknowledge

EmptyBatchSpec == Init /\ [][EmptyBatchNext]_vars

\* ------------------------------------ invocations followed call by call
\* Lambda runs as many instances of a worker as there are batches to hand
\* out. Here an invocation is followed one awaited call at a time, so that
\* the calls of instances running at the same time interleave on the queues
\* and the tables. An instance is used for one invocation.
\* st: "free" | "enter" (top of the for loop) | "call" (at the call number at
\* of record i) | "catch" | "after" (the calls after the loop) | "done" |
\* "acked". finished: the records whose try block ran to its end. log: the
\* calls made so far, as <<record index, call number>>.
Current(me) == me.records[me.i]

\* Every call is made a second time.
LoggingTwice(me, call) == [me EXCEPT !.log = @ \o <<<<me.i, call>>, <<me.i, call>>>>]

Logging(me, call) == [me EXCEPT !.log = Append(@, <<me.i, call>>)]

\* The calls of every record are issued together, one round per call.
NextCallInterleaved(me) ==
    [me EXCEPT !.i = IF me.i < Len(me.records) THEN me.i + 1 ELSE 1,
               !.at = IF me.i < Len(me.records) THEN @ ELSE @ + 1]

\* The await returned: the next statement of the same loop pass runs.
NextCall(me) == [me EXCEPT !.at = @ + 1]

\* The loop pass is over (its end was reached, or continue): i++.
NextRecord(me) == [me EXCEPT !.st = "enter", !.i = @ + 1, !.at = 0, !.pid = NoId]

Done(me, resp) == [me EXCEPT !.st = "done", !.response = resp]

Summary(me) ==
    CASE me.stage = "parser" -> [batchItemFailures |-> me.failures]
      [] me.stage = "extractor" -> ExtractorSummary(me.records, me.failures)
      [] me.stage = "scorer" -> ScorerSummary(me.records)

\* The awaited calls after the loop: none when processingResults is empty.
AfterCalls(me) ==
    IF me.results = <<>> THEN 0
    ELSE CASE me.stage = "parser" -> ParserFinishCalls
           [] me.stage = "extractor" -> 1
           [] me.stage = "scorer" -> 0

\* The event source hands a batch to a new instance. The messages in `again`
\* become visible again while the instance is still working on them.
Invoke(k, s, records, again) ==
    /\ inst[k].st = "free"
    /\ \A j \in 1..(k - 1) : inst[j].st # "free"
    /\ Range(records) \subseteq queue[s]
    /\ again \subseteq Range(records)
    /\ redelivered + Cardinality(again) <= MaxRedeliver
    /\ redelivered' = redelivered + Cardinality(again)
    /\ queue' = [queue EXCEPT ![s] = @ \ (Range(records) \ again)]
    /\ inst' = [inst EXCEPT ![k] =
                  [NoInstance EXCEPT !.st = "enter", !.stage = s, !.records = records,
                                     !.i = 1]]
    /\ UNCHANGED <<locals, stores, nextMsg, nextPid, uploads, ghosts, retry, helper>>

InvokeBatch ==
    \E k \in 1..MaxInstances, s \in Stages : \E S \in SUBSET queue[s] :
        /\ S # {}
        /\ Cardinality(S) <= MaxBatch
        /\ \E records \in Perms(S), again \in SUBSET S : Invoke(k, s, records, again)

\* The top of the for loop: the loop ends, JSON.parse throws, the type check
\* continues, or the try block is entered (the Parser draws its uuidv4()).
Enter(k) ==
    LET me == inst[k]
    IN /\ me.st = "enter"
       /\ IF me.i > Len(me.records)
            THEN /\ inst' = [inst EXCEPT ![k] =
                               IF AfterCalls(me) = 0
                                 THEN Done(me, handlerSuccess(Summary(me)))
                                 ELSE [me EXCEPT !.st = "after", !.at = 1]]
                 /\ nextPid' = nextPid
            ELSE IF ~Current(me).bodyOk
              THEN /\ inst' = [inst EXCEPT ![k] = Done(me, handlerFailure)]
                   /\ nextPid' = nextPid
            ELSE IF Current(me).type # ExpectedType(me.stage)
              THEN /\ inst' = [inst EXCEPT ![k] = NextRecord(me)]
                   /\ nextPid' = nextPid
            ELSE IF me.stage = "parser"
              THEN /\ nextPid < MaxPids
                   /\ nextPid' = nextPid + 1
                   /\ inst' = [inst EXCEPT ![k] =
                                 [me EXCEPT !.st = "call", !.at = 1, !.pid = nextPid + 1]]
              ELSE /\ nextPid' = nextPid
                   /\ inst' = [inst EXCEPT ![k] =
                                 [me EXCEPT !.st = "call", !.at = 1,
                                            !.pid = Current(me).processingId]]
       /\ UNCHANGED <<queue, locals, stores, nextMsg, uploads, redelivered, ghosts, retry, helper>>

\* One awaited call of the Parser's try block (numbered as in ParserRecord);
\* ok tells whether it succeeds. The catch block makes no call.
ParserCall(k, ok) ==
    LET me == inst[k]
        record == Current(me)
        id == nextMsg + 1
        resumeData == [msg |-> record.id, resumeId |-> record.resumeId,
                       processingId |-> me.pid]
        parsedResumeData == [resumeId |-> record.resumeId, processingId |-> NoId]
        did(call) == ok /\ me.at = call
        logged == Logging(me, me.at)
    IN /\ me.st = "call"
       /\ me.stage = "parser"
       /\ statusStore' = IF did(1)
                           THEN PutItem(statusStore, me.pid, PROCESSING_STATUS.PARSING,
                                        record.resumeId,
                                        {"resumeId", "jobId", "parsingStartedAt"})
                           ELSE statusStore
       /\ statusWrites' = Logged(statusWrites, statusStore, me.pid,
                                 Wrote(did(1), PROCESSING_STATUS.PARSING))
       /\ queue' = IF did(3)
                     THEN [queue EXCEPT !["extractor"] =
                             @ \cup {SkillExtractionMessage(id, parsedResumeData, record.id)}]
                     ELSE queue
       /\ nextMsg' = IF did(3) THEN id ELSE nextMsg
       /\ resumes' = IF did(4)
                       THEN UpdateResume(resumes, record.resumeId, "SKILL_EXTRACTION",
                                         {"skillExtractionStartedAt"})
                       ELSE resumes
       /\ inst' = [inst EXCEPT ![k] =
                     IF ~ok
                       THEN NextRecord([logged EXCEPT
                                          !.failures = Append(@, ItemFailure(record))])
                     ELSE IF me.at = 2
                       THEN NextCall([logged EXCEPT !.results = Append(@, resumeData)])
                     ELSE IF me.at = ParserCalls
                       THEN NextRecord([logged EXCEPT !.finished = @ \cup {me.i}])
                     ELSE NextCall(logged)]
       /\ UNCHANGED <<locals, scores, nextPid, uploads, redelivered, ghosts, retry, helper>>

\* The Parser after the loop: 1 storeParsedResumes, 2 updateProcessingStatuses
\* (EXTRACTING_SKILLS), then the return; an error leaves the outer try.
ParserAfter(k, ok) ==
    LET me == inst[k]
        did(call) == ok /\ me.at = call
        logged == Logging(me, me.at)
    IN /\ me.st = "after"
       /\ me.stage = "parser"
       /\ resumes' = IF did(1) THEN ParserStored(resumes, me.results) ELSE resumes
       /\ statusStore' = IF did(2)
                           THEN ParserFinalStatuses(statusStore, me.results)
                           ELSE statusStore
       /\ statusWrites' = IF did(2)
                            THEN ParserFinalLog(statusWrites, statusStore, me.results)
                            ELSE statusWrites
       /\ inst' = [inst EXCEPT ![k] =
                     IF ~ok THEN Done(logged, handlerFailure)
                     ELSE IF me.at = ParserFinishCalls
                       THEN Done(logged, handlerSuccess(Summary(me)))
                     ELSE NextCall(logged)]
       /\ UNCHANGED <<queue, locals, scores, counters, ghosts, retry, helper>>

\* One awaited call of the Extractor's try block (numbered as in
\* ExtractorRecord). When it throws, the catch block extends the failure list
\* and, for a body with a processingId, goes on to write FAILED.
ExtractorCall(k, ok) ==
    LET me == inst[k]
        record == Current(me)
        id == nextMsg + 1
        skillData == [resumeId |-> record.resumeId, processingId |-> me.pid]
        did(call) == ok /\ me.at = call
        logged == Logging(me, me.at)
        failed == [logged EXCEPT !.failures = Append(@, ItemFailure(record))]
    IN /\ me.st = "call"
       /\ me.stage = "extractor"
       /\ ExtractorFirstFailure(record, 0) = me.at => ~ok
       /\ statusStore' =
            IF did(1)
              THEN PutItem(statusStore, me.pid, PROCESSING_STATUS.EXTRACTING_SKILLS, NoId,
                           {"skillExtractionStartedAt"})
            ELSE IF did(4)
              THEN PutItem(statusStore, me.pid, PROCESSING_STATUS.COMPLETED, NoId,
                           {"skillExtractionCompletedAt", "skillsCount"})
            ELSE statusStore
       /\ statusWrites' = Logged(statusWrites, statusStore, me.pid,
                                 Wrote(did(1), PROCESSING_STATUS.EXTRACTING_SKILLS)
                                 \o Wrote(did(4), PROCESSING_STATUS.COMPLETED))
       /\ queue' = IF did(5)
                     THEN [queue EXCEPT !["scorer"] =
                             @ \cup {ScoringMessage(id, skillData, record.id)}]
                     ELSE queue
       /\ nextMsg' = IF did(5) THEN id ELSE nextMsg
       /\ resumes' = IF did(6)
                       THEN UpdateResume(resumes, record.resumeId, "SCORING",
                                         {"scoringStartedAt"})
                       ELSE resumes
       /\ inst' = [inst EXCEPT ![k] =
                     IF ~ok
                       THEN IF me.pid # NoId
                              THEN [failed EXCEPT !.st = "catch"]
                              ELSE NextRecord(failed)
                     ELSE IF me.at = 3
                       THEN NextCall([logged EXCEPT
                                        !.results = Append(@, [msg |-> record.id,
                                                               resumeId |-> record.resumeId,
                                                               processingId |-> me.pid])])
                     ELSE IF me.at = ExtractorCalls
                       THEN NextRecord([logged EXCEPT !.finished = @ \cup {me.i}])
                     ELSE NextCall(logged)]
       /\ UNCHANGED <<locals, scores, nextPid, uploads, redelivered, ghosts, retry, helper>>

\* The FAILED write of the Extractor's catch block, in a try of its own.
ExtractorCatch(k, ok) ==
    LET me == inst[k]
    IN /\ me.st = "catch"
       /\ me.stage = "extractor"
       /\ statusStore' = IF ok
                           THEN PutItem(statusStore, me.pid, PROCESSING_STATUS.FAILED, NoId,
                                        {"error", "failedAt"})
                           ELSE statusStore
       /\ statusWrites' = Logged(statusWrites, statusStore, me.pid,
                                 Wrote(ok, PROCESSING_STATUS.FAILED))
       /\ inst' = [inst EXCEPT ![k] = NextRecord(Logging(me, ExtractorCalls + 1))]
       /\ UNCHANGED <<queue, locals, resumes, scores, counters, ghosts, retry, helper>>

\* The Extractor after the loop: updateResumesWithSkills, then the return.
ExtractorAfter(k, ok) ==
    LET me == inst[k]
        logged == Logging(me, me.at)
    IN /\ me.st = "after"
       /\ me.stage = "extractor"
       /\ resumes' = IF ok THEN ExtractorStored(resumes, me.results) ELSE resumes
       /\ inst' = [inst EXCEPT ![k] =
                     IF ok THEN Done(logged, handlerSuccess(Summary(me)))
                     ELSE Done(logged, handlerFailure)]
       /\ UNCHANGED <<queue, locals, statusStore, statusWrites, scores, counters, ghosts,
                      retry, helper>>

\* One awaited call of the Scorer's try block (numbered as in ScorerRecord);
\* reply is what the inference service answers at call 2.
ScorerCall(k, ok, reply) ==
    LET me == inst[k]
        record == Current(me)
        did(call) == ok /\ me.at = call
        logged == Logging(me, me.at)
    IN /\ me.st = "call"
       /\ me.stage = "scorer"
       /\ (me.at = 1 /\ me.pid = NoId) => ~ok
       /\ ~did(2) => reply = "json"
       /\ statusStore' =
            IF did(1)
              THEN UpdateItem(statusStore, me.pid, PROCESSING_STATUS.SCORING,
                              {"scoringStartedAt"})
            ELSE IF did(5)
              THEN UpdateItem(statusStore, me.pid, PROCESSING_STATUS.COMPLETED,
                              {"scoringCompletedAt", "finalScore"})
            ELSE statusStore
       /\ statusWrites' = Logged(statusWrites, statusStore, me.pid,
                                 Wrote(did(1), PROCESSING_STATUS.SCORING)
                                 \o Wrote(did(5), PROCESSING_STATUS.COMPLETED))
       /\ scores' = IF did(3) THEN storeMatchScore(scores, record, me.score) ELSE scores
       /\ resumes' = IF did(4)
                       THEN UpdateResume(resumes, record.resumeId, "SCORED",
                                         {"matchScore", "scoredAt"})
                       ELSE resumes
       /\ inst' = [inst EXCEPT ![k] =
                     IF ~ok THEN [logged EXCEPT !.st = "catch"]
                     ELSE IF me.at = 2
                       THEN NextCall([logged EXCEPT !.score = calculateMatchScore(reply)])
                     ELSE IF me.at = ScorerCalls
                       THEN NextRecord([logged EXCEPT !.finished = @ \cup {me.i}])
                     ELSE NextCall(logged)]
       /\ UNCHANGED <<queue, locals, counters, ghosts, retry, helper>>

\* The FAILED write of the Scorer's catch block: when it throws, the error
\* leaves the loop and the outer try.
ScorerCatch(k, ok) ==
    LET me == inst[k]
        logged == Logging(me, ScorerCalls + 1)
    IN /\ me.st = "catch"
       /\ me.stage = "scorer"
       /\ me.pid = NoId => ~ok
       /\ statusStore' = IF ok
                           THEN UpdateItem(statusStore, me.pid, PROCESSING_STATUS.FAILED,
                                           {"error", "failedAt"})
                           ELSE statusStore
       /\ statusWrites' = Logged(statusWrites, statusStore, me.pid,
                                 Wrote(ok, PROCESSING_STATUS.FAILED))
       /\ inst' = [inst EXCEPT ![k] =
                     IF ok THEN NextRecord(logged) ELSE Done(logged, handlerFailure)]
       /\ UNCHANGED <<queue, locals, resumes, scores, counters, ghosts, retry, helper>>

\* The invocation is over: the event source deletes the messages of the batch,
\* except those the response reports as failed.
Settle(k) ==
    LET me == inst[k]
    IN /\ me.st = "done"
       /\ queue' = [queue EXCEPT ![me.stage] = @ \cup NotDeleted(me.response, me.records)]
       /\ inst' = [inst EXCEPT ![k] = [me EXCEPT !.st = "acked"]]
       /\ UNCHANGED <<locals, stores, counters, ghosts, retry, helper>>

StepNext ==
    \/ \E f \in 0..UploadCalls : Upload(f)
    \/ InvokeBatch
    \/ \E k \in 1..MaxInstances : Enter(k)
    \/ \E k \in 1..MaxInstances, ok \in BOOLEAN : ParserCall(k, ok)
    \/ \E k \in 1..MaxInstances, ok \in BOOLEAN : ParserAfter(k, ok)
    \/ \E k \in 1..MaxInstances, ok \in BOOLEAN : ExtractorCall(k, ok)
    \/ \E k \in 1..MaxInstances, ok \in BOOLEAN : ExtractorCatch(k, ok)
    \/ \E k \in 1..MaxInstances, ok \in BOOLEAN : ExtractorAfter(k, ok)
    \/ \E k \in 1..MaxInstances, ok \in BOOLEAN, reply \in Replies : ScorerCall(k, ok, reply)
    \/ \E k \in 1..MaxInstances, ok \in BOOLEAN : ScorerCatch(k, ok)
    \/ \E k \in 1..MaxInstances : Settle(k)

StepSpec == Init /\ [][StepNext]_vars

\* ------------------------------- extractSkillsFromText: the retry loop
\* One call of extractSkillsFromText followed step by step. Its input is
\* whether the message carried a text, and what the inference service yields
\* at each call of model.invoke.
maxAttempts == 3

\* A reply is a bare JSON object, a JSON object inside a markdown fence, the
\* JSON value null, text that is not JSON, or a rejection of the call
\* (timeout, rate limit).
ReplyKinds == {"object", "fenced", "null", "text", "rejected"}

\* What one pass of the try block throws on a reply ("none": it returns).
AttemptError(reply) ==
    CASE reply = "rejected" -> "InvokeError"
      [] reply \in {"fenced", "text"} -> "SyntaxError"
      [] reply = "null" -> "Invalid skills format returned"
      [] OTHER -> "none"

\* if (attempts === maxAttempts) throw error
ExhaustedEarly(attempts) == attempts >= maxAttempts - 1

Exhausted(attempts) == attempts = maxAttempts

\* The same wait after every failed attempt.
delayFixed(attempts) == 1000

\* setTimeout(resolve, 1000 * attempts)
delay(attempts) == 1000 * attempts

\* The error the catch block rethrows: the one it has just caught.
FirstError(replies, calls) == [attempt |-> 1, kind |-> AttemptError(replies[1])]

CaughtError(replies, calls) == [attempt |-> calls, kind |-> AttemptError(replies[calls])]

pipeline == <<queue, locals, stores, counters, ghosts, inst, helper>>

RetryInputs == [hasText : BOOLEAN, replies : [1..maxAttempts -> ReplyKinds]]

RetryInit ==
    /\ queue = [s \in Stages |-> {}]
    /\ Quiet
    /\ retry \in {[pc |-> "start", hasText |-> i.hasText, replies |-> i.replies,
                   attempts |-> 0, calls |-> 0, waits |-> <<>>,
                   error |-> [attempt |-> 0, kind |-> "none"]] : i \in RetryInputs}
    /\ helper = NoHelper

\* resumeText.length: a TypeError when the text is undefined, rethrown by the
\* outer catch before the loop is entered.
ExtractStart ==
    /\ retry.pc = "start"
    /\ retry' = IF retry.hasText
                  THEN [retry EXCEPT !.pc = "loop"]
                  ELSE [retry EXCEPT !.pc = "thrown",
                                     !.error = [attempt |-> 0, kind |-> "TypeError"]]
    /\ UNCHANGED pipeline

\* One pass of the while loop: model.invoke, JSON.parse, validation, and the
\* catch block with its wait.
Attempt ==
    /\ retry.pc = "loop"
    /\ retry.attempts < maxAttempts
    /\ LET calls == retry.calls + 1
           reply == retry.replies[calls]
           attempts == retry.attempts + 1
       IN retry' =
            IF AttemptError(reply) = "none"
              THEN [retry EXCEPT !.pc = "returned", !.calls = calls]
              ELSE IF Exhausted(attempts)
                     THEN [retry EXCEPT !.pc = "thrown", !.calls = calls,
                                        !.attempts = attempts,
                                        !.error = CaughtError(retry.replies, calls)]
                     ELSE [retry EXCEPT !.calls = calls, !.attempts = attempts,
                                        !.waits = Append(@, delay(attempts))]
    /\ UNCHANGED pipeline

RetryNext == ExtractStart \/ Attempt

\* The runtime resumes an awaited call: a started call of
\* extractSkillsFromText is not left waiting for ever.
RetrySpec == RetryInit /\ [][RetryNext]_vars /\ WF_vars(RetryNext)

\* ---------------------------------------------------- helper functions
\* What a followed helper function leaves alone.
rest == <<queue, locals, stores, counters, ghosts, inst, retry>>

Min(a, b) == IF a < b THEN a ELSE b

\* ------------------------- extractSkillsFromText: the text put in the prompt
maxLength == 3000

\* A text is followed by the number of characters it takes from the
\* message's text (a prefix of it) and the number of characters appended.
TextLengths == {0} \cup ((maxLength - MaxOver)..(maxLength + MaxOver))

Text(n) == [chars |-> n, appended |-> 0]

Length(text) == text.chars + text.appended

\* String.prototype.substring(0, end)
substring(text, end) == [text EXCEPT !.chars = Min(@, end)]

\* `${resumeText.substring(0, maxLength)}...` when the text is longer than
\* maxLength, the text itself otherwise.
truncatedText(resumeText) ==
    IF Length(resumeText) > maxLength
      THEN [substring(resumeText, maxLength) EXCEPT !.appended = @ + 3]
      ELSE resumeText

TruncateInit ==
    /\ queue = [s \in Stages |-> {}]
    /\ Quiet
    /\ retry = NoRetry
    /\ helper \in {[pc |-> "text", resumeText |-> Text(n), submitted |-> Text(0)] :
                     n \in TextLengths}

\* skillExtractionPrompt.format({resumeText: truncatedText})
FormatPrompt ==
    /\ helper.pc = "text"
    /\ helper' = [helper EXCEPT !.pc = "prompt",
                                !.submitted = truncatedText(helper.resumeText)]
    /\ UNCHANGED rest

TruncateNext == FormatPrompt

TruncateSpec == TruncateInit /\ [][TruncateNext]_vars

\* --------------------------------- parsePDFFromS3: extraction against a timer
\* pdf(buffer) settles at some time with a text or an error, or never does;
\* the timer rejects after `timeout` ms. Time is followed in steps of one
\* second; the code awaiting the race resumes as soon as the race is settled.
timeout == 30000

PdfTimes == {1000 * t : t \in 0..((timeout \div 1000) + MaxLate)}

PdfOutcomes ==
    [at : PdfTimes, as : {"text", "error"}] \cup {[at |-> 0, as |-> "hangs"]}

\* A race in which a later settlement replaces an earlier one.
settleLast(race, outcome) == outcome

\* Promise.race: settled by the first of its promises that settles.
settle(race, outcome) == IF race = "pending" THEN outcome ELSE race

RaceInit ==
    /\ queue = [s \in Stages |-> {}]
    /\ Quiet
    /\ retry = NoRetry
    /\ helper \in {[pc |-> "race", pdf |-> o, now |-> 0, race |-> "pending",
                    pdfSettled |-> FALSE, timerFired |-> FALSE,
                    item |-> "none", resumedAt |-> 0] : o \in PdfOutcomes}

PdfDue == helper.pdf.as # "hangs" /\ helper.pdf.at = helper.now /\ ~helper.pdfSettled

TimerDue == helper.now = timeout /\ ~helper.timerFired

Resumable == helper.race # "pending" /\ helper.item = "none"

\* pdf(Buffer.from(pdfBuffer)) resolves or rejects.
PdfSettles ==
    /\ helper.pc = "race"
    /\ PdfDue
    /\ helper' = [helper EXCEPT !.pdfSettled = TRUE,
                                !.race = settle(@, helper.pdf.as)]
    /\ UNCHANGED rest

\* setTimeout(() => reject(new Error('PDF parsing timeout')), 30000)
TimerFires ==
    /\ helper.pc = "race"
    /\ TimerDue
    /\ helper' = [helper EXCEPT !.timerFired = TRUE, !.race = settle(@, "timeout")]
    /\ UNCHANGED rest

\* await Promise.race(...) resumes: the text is returned, or the error is
\* rethrown and main's catch block reports the item as failed.
RaceAwaited ==
    /\ helper.pc = "race"
    /\ Resumable
    /\ helper' = [helper EXCEPT !.item = IF helper.race = "text" THEN "parsed" ELSE "failed",
                                !.resumedAt = helper.now]
    /\ UNCHANGED rest

\* Time passes when nothing is due.
Tick ==
    /\ helper.pc = "race"
    /\ ~PdfDue /\ ~TimerDue /\ ~Resumable
    /\ \/ ~helper.timerFired
       \/ helper.pdf.as # "hangs" /\ ~helper.pdfSettled
    /\ helper' = [helper EXCEPT !.now = @ + 1000]
    /\ UNCHANGED rest

RaceNext == PdfSettles \/ TimerFires \/ RaceAwaited \/ Tick

RaceSpec == RaceInit /\ [][RaceNext]_vars

\* ------------------------------------------------ the batched write helpers
\* storeParsedResumes, updateProcessingStatuses and updateResumesWithSkills
\* share one shape: the input is cut into batches, then one write call is
\* awaited per batch. The items are followed by their position in the input.
batchSize == 25

\* A slice that takes one item too many.
sliceOverlapping(items, start, end) == SubSeq(items, start + 1, Min(end + 1, Len(items)))

\* Array.prototype.slice(start, end)
slice(items, start, end) == SubSeq(items, start + 1, Min(end, Len(items)))

BatchInit ==
    /\ queue = [s \in Stages |-> {}]
    /\ Quiet
    /\ retry = NoRetry
    /\ helper \in {[pc |-> "slicing", items |-> [j \in 1..k |-> j], i |-> 0,
                    batches |-> <<>>, sent |-> <<>>] : k \in 0..MaxItems}

\* for (let i = 0; i < items.length; i += batchSize) batches.push(items.slice(...))
SliceBatch ==
    /\ helper.pc = "slicing"
    /\ helper' = IF helper.i < Len(helper.items)
                   THEN [helper EXCEPT
                           !.batches = Append(@, slice(helper.items, helper.i,
                                                       helper.i + batchSize)),
                           !.i = @ + batchSize]
                   ELSE [helper EXCEPT !.pc = "sending"]
    /\ UNCHANGED rest

\* for (const batch of batches) await dynamoDb.send(...): the call succeeds,
\* or it throws and the helper rethrows; after the last batch the helper returns.
SendBatch(ok) ==
    /\ helper.pc = "sending"
    /\ helper' = IF Len(helper.sent) = Len(helper.batches)
                   THEN [helper EXCEPT !.pc = "returned"]
                 ELSE IF ok
                   THEN [helper EXCEPT !.sent = Append(@, helper.batches[Len(@) + 1])]
                 ELSE [helper EXCEPT !.pc = "thrown"]
    /\ UNCHANGED rest

BatchNext == SliceBatch \/ \E ok \in BOOLEAN : SendBatch(ok)

BatchSpec == BatchInit /\ [][BatchNext]_vars

\* ======================================================================
\* Properties
\* ======================================================================
NextStage(s) == IF s = "parser" THEN "extractor" ELSE "scorer"

Returned(s) == pc[s] = "returned"

ReturnedNormally(s) == Returned(s) /\ response[s].statusCode = 200

Ids(failures) == {failures[i].itemIdentifier : i \in 1..Len(failures)}

\* The records of the running batch that ended with the given outcome.
WithOutcome(s, o) ==
    {batch[s][i].id : i \in {j \in 1..Len(outcomes[s]) : outcomes[s][j] = o}}

\* The records whose catch block wrote FAILED, and those whose catch block
\* tried to.
FailedWritten(s) == {e.id : e \in {w \in failedWrites[s] : w.ok}}

FailedWriteAttempted(s) == {e.id : e \in failedWrites[s]}

\* The failed identifiers a response names, wherever it carries them: in the
\* wrapped return value itself (Parser) or in that value's body (Extractor).
SummaryFailures(resp) ==
    IF "data" \notin DOMAIN resp.body THEN {}
    ELSE LET d == resp.body.data
         IN IF "batchItemFailures" \in DOMAIN d THEN Ids(d.batchItemFailures)
            ELSE IF "batchItemFailures" \in DOMAIN d.body
                   THEN Ids(d.body.batchItemFailures)
                   ELSE {}

\* The counts a response carries (0 for a count it does not carry).
CountedProcessed(resp) ==
    IF "data" \in DOMAIN resp.body /\ "body" \in DOMAIN resp.body.data
      THEN resp.body.data.body.processedCount
      ELSE 0

\* C1: for every batch of which k messages fail processing, the invocation's
\* result reports exactly the messageIds of those k messages as failed.
C1_FailedIdentifiersReported ==
    \A s \in Stages :
        ReturnedNormally(s) => SummaryFailures(response[s]) = WithOutcome(s, "failed")

StatusRank(st) ==
    CASE st = "NONE" -> 0
      [] st = PROCESSING_STATUS.PENDING -> 1
      [] st = PROCESSING_STATUS.PARSING -> 2
      [] st = PROCESSING_STATUS.EXTRACTING_SKILLS -> 3
      [] st = PROCESSING_STATUS.SCORING -> 4
      [] st = PROCESSING_STATUS.COMPLETED -> 5
      [] st = PROCESSING_STATUS.FAILED -> 6

\* C2: status monotonicity: no write under a processingId replaces a status
\* by an earlier non-failed status of PENDING, PARSING, EXTRACTING_SKILLS,
\* SCORING, COMPLETED.
C2_StatusMonotonic ==
    \A p \in Pids : \A i \in 1..(Len(statusWrites[p]) - 1) :
        LET old == statusWrites[p][i]
            new == statusWrites[p][i + 1]
        IN (old # PROCESSING_STATUS.FAILED /\ new # PROCESSING_STATUS.FAILED)
              => StatusRank(old) <= StatusRank(new)

\* The messages the pipeline itself has enqueued and that are still around.
PipelineMessages ==
    {m \in UNION {queue[s] \cup Range(batch[s]) : s \in Stages} : m.id > MaxExternal}

\* C3: the processingId of a run is generated at the first enqueue, so every
\* message of the pipeline carries one, and a derived message carries the
\* processingId of the message it was derived from.
C3_ProcessingIdThreaded ==
    /\ \A m \in PipelineMessages : m.processingId # NoId
    /\ \A s \in {"parser", "extractor"} :
          \A r \in Range(batch[s]) : \A m \in queue[NextStage(s)] :
              m.parent = r.id => m.processingId = r.processingId

\* C4: a message that a stage reports as failed is not forwarded downstream.
C4_FailedNotForwarded ==
    \A s \in {"parser", "extractor"} :
        ReturnedNormally(s) => fwd[s] \cap Ids(batchItemFailures[s]) = {}

\* C5: the items whose status is advanced to the stage's next status are
\* exactly the messages of the batch that did not fail (an item whose catch
\* block went on to write FAILED, or tried to, does not count as advanced).
C5_AdvancedExactlyTheSuccessful ==
    \A s \in Stages :
        ReturnedNormally(s) =>
            advanced[s] \ FailedWriteAttempted(s) = WithOutcome(s, "ok")

\* C6: a message of a foreign type is counted neither as processed nor as
\* failed, and no status is written under its processingId.
C6_MismatchSkipped ==
    \A s \in Stages :
        ReturnedNormally(s) =>
            /\ CountedProcessed(response[s])
                 <= Len(batch[s]) - Cardinality(WithOutcome(s, "skipped"))
            /\ WithOutcome(s, "skipped") \cap SummaryFailures(response[s]) = {}
            /\ WithOutcome(s, "skipped") \cap (advanced[s] \cup FailedWriteAttempted(s)) = {}

\* C7: every message that fails soft-processing has FAILED written to the
\* status store for its processingId (a FAILED write that the status store
\* itself rejects is not held against the stage).
C7_FailedStatusWritten ==
    \A s \in Stages :
        ReturnedNormally(s) => WithOutcome(s, "failed") \subseteq FailedWriteAttempted(s)

\* C8: an item-level failure never aborts the batch: once the invocation
\* over a batch of well-formed bodies is over, every message of the batch has
\* been processed to its own outcome (success, soft failure or skip).
C8_NoBatchAbort ==
    \A s \in Stages :
        (Returned(s) /\ \A m \in Range(batch[s]) : m.bodyOk) =>
            /\ Len(outcomes[s]) = Len(batch[s])
            /\ \A i \in 1..Len(outcomes[s]) : outcomes[s][i] \in {"ok", "failed", "skipped"}

\* C9: a message whose body fails to parse is a soft failure of that message
\* only: it is on the failure list and the rest of the batch is processed.
C9_UnparsableBodyIsSoftFailure ==
    \A s \in Stages :
        Returned(s) =>
            \A i \in 1..Len(batch[s]) :
                ~batch[s][i].bodyOk =>
                    /\ batch[s][i].id \in Ids(batchItemFailures[s])
                    /\ Len(outcomes[s]) = Len(batch[s])

\* C10: partial-batch acknowledgment: the messages the event source keeps for
\* redelivery after an invocation are exactly those that failed
\* soft-processing; the others are deleted.
C10_PartialBatchAck ==
    \A s \in Stages :
        ReturnedNormally(s) =>
            {m.id : m \in NotDeleted(response[s], batch[s])} = WithOutcome(s, "failed")

\* The summary a normal response carries: the body of the worker's return
\* value when it has one (Extractor, Scorer), else the return value (Parser).
SummaryOf(resp) ==
    LET d == resp.body.data
    IN IF "body" \in DOMAIN d THEN d.body ELSE d

\* C11: an invocation with only item-level failures returns a summary with
\* processedCount, failedCount and the failed identifiers; processedCount is
\* the number of messages processed successfully and failedCount the number
\* of failed identifiers.
C11_StructuredSummary ==
    \A s \in Stages :
        ReturnedNormally(s) =>
            LET summary == SummaryOf(response[s])
            IN /\ {"processedCount", "failedCount", "batchItemFailures"} \subseteq DOMAIN summary
               /\ summary.processedCount = Cardinality(WithOutcome(s, "ok"))
               /\ summary.failedCount = Len(summary.batchItemFailures)

\* An error of a store or queue call left the worker's outer try block (the
\* bodies of the batch all parse, so it was not a JSON.parse error).
Propagated(s) ==
    /\ Returned(s)
    /\ response[s] = handlerFailure
    /\ \A m \in Range(batch[s]) : m.bodyOk

\* C12: an infrastructure error that is not caught per item propagates out of
\* the invocation as a thrown failure, so that the platform keeps the whole
\* batch for redelivery.
C12_InfrastructureErrorRedeliversBatch ==
    \A s \in Stages :
        Propagated(s) => NotDeleted(response[s], batch[s]) = Range(batch[s])

\* The call of extractSkillsFromText has entered its loop and is over.
Finished == retry.pc \in {"returned", "thrown"} /\ retry.hasText

\* The number of failing replies before the first one that passes.
LeadingFailures(replies) ==
    LET good == {i \in 1..Len(replies) : AttemptError(replies[i]) = "none"}
    IN IF good = {} THEN Len(replies)
       ELSE (CHOOSE i \in good : \A j \in good : i <= j) - 1

\* C13: when the inference call fails m times and then succeeds, with m
\* smaller than maxAttempts, the retry loop returns the success result and has
\* made exactly m + 1 calls.
C13_RetrySucceedsAfterFailures ==
    \A m \in 0..(maxAttempts - 1) :
        (retry.pc # "none" /\ retry.hasText /\ LeadingFailures(retry.replies) = m) =>
            /\ retry.calls <= m + 1
            /\ retry.pc # "thrown"
            /\ retry.pc = "returned" => retry.calls = m + 1

C13_Witness ==
    /\ retry.pc = "returned"
    /\ LeadingFailures(retry.replies) = maxAttempts - 1
    /\ retry.calls = maxAttempts

\* C14: when the inference call always fails, the retry loop makes exactly
\* maxAttempts calls and then terminates by re-raising the error of the
\* final attempt.
C14_RetryExhausted ==
    /\ [](retry.pc # "none" /\ LeadingFailures(retry.replies) = maxAttempts
            => /\ retry.calls <= maxAttempts
               /\ retry.pc # "returned"
               /\ Finished => /\ retry.calls = maxAttempts
                              /\ retry.error.attempt = maxAttempts
                              /\ retry.error.kind = AttemptError(retry.replies[maxAttempts]))
    /\ (retry.pc = "loop" /\ LeadingFailures(retry.replies) = maxAttempts)
          ~> (retry.pc = "thrown")

C14_Witness ==
    /\ retry.pc = "thrown"
    /\ retry.calls = maxAttempts
    /\ retry.replies[1] # retry.replies[maxAttempts]

\* C15: in the Extractor an inference reply that cannot be parsed is not
\* retried: the inference service is invoked exactly once and the parse
\* failure is the failure of the item.
C15_ParseFailureNotRetried ==
    (Finished /\ AttemptError(retry.replies[1]) = "SyntaxError") =>
        retry.calls = 1 /\ retry.pc = "thrown"

\* C16: in the Scorer a malformed (non-JSON) inference reply does not fail the
\* item: when no store call throws, a score record with overallScore 50 and
\* confidence 0.3 is written, the message is not counted as failed and the
\* processing status of its processingId ends as COMPLETED.
C16_MalformedReplyFallsBack ==
    [][\A failedWriteOk \in BOOLEAN :
          ScorerRecord(0, "malformed", failedWriteOk) =>
              LET record == Record("scorer")
              IN /\ ScoreOf(scores', record.resumeId) = [overallScore |-> 50, confidence |-> "0.3"]
                 /\ outcomes'["scorer"][Len(outcomes'["scorer"])] = "ok"
                 /\ record.id \notin FailedWriteAttempted("scorer")'
                 /\ statusStore'[record.processingId].status = PROCESSING_STATUS.COMPLETED
                 /\ pc'["scorer"] = "running"]_vars

C16_Witness ==
    /\ pc["scorer"] = "returned"
    /\ \E i \in 1..Len(outcomes["scorer"]) :
          LET record == batch["scorer"][i]
          IN /\ outcomes["scorer"][i] = "ok"
             /\ record.processingId # NoId
             /\ ScoreOf(scores, record.resumeId) = [overallScore |-> 50, confidence |-> "0.3"]
             /\ statusStore[record.processingId].status = PROCESSING_STATUS.COMPLETED

\* C17: handoff Parser to Extractor: given the Extract message the Parser
\* enqueued for a parsed document, a valid reply and no failing store or queue
\* call, the Extractor records the item's skills and enqueues one Score
\* message for it.
C17_HandoffParserToExtractor ==
    [][(ExtractorRecord(0, TRUE) /\ Record("extractor").parent # 0) =>
          LET record == Record("extractor")
          IN /\ outcomes'["extractor"][Len(outcomes'["extractor"])] = "ok"
             /\ \E i \in 1..Len(processingResults'["extractor"]) :
                   processingResults'["extractor"][i].msg = record.id
             /\ Cardinality({m \in queue'["scorer"] : m.parent = record.id}) = 1]_vars

\* C18: end-to-end progress: when every stage succeeds and queued messages
\* are delivered, the status recorded under the processingId of a run the
\* Parser has started eventually reaches COMPLETED (or, more generally,
\* COMPLETED or FAILED).
C18_RunReachesTerminalStatus ==
    \A p \in 1..MaxPids :
        (statusStore[p].status = PROCESSING_STATUS.PARSING)
            ~> (statusStore[p].status \in {PROCESSING_STATUS.COMPLETED,
                                           PROCESSING_STATUS.FAILED})

\* C19: each stage enqueues the next stage's message and updates the status
\* store before its invocation returns: once an invocation has ended, normally
\* or with an error, every item with a derived message on the next stage's
\* queue has had its end-of-stage status written.
C19_StatusWrittenBeforeReturn ==
    \A s \in {"parser", "extractor"} :
        Returned(s) =>
            \A r \in Range(batch[s]) :
                (\E m \in queue[NextStage(s)] : m.parent = r.id) => r.id \in advanced[s]

\* C20: an empty batch is a no-op and not an error: the invocation writes no
\* status and no record, enqueues nothing, and returns normally with no failed
\* identifier.
C20_EmptyBatchIsNoOp ==
    /\ [](\A s \in Stages :
            (Returned(s) /\ batch[s] = <<>>) =>
                /\ ReturnedNormally(s)
                /\ SummaryFailures(response[s]) = {}
                /\ ReportedItemFailures(response[s]) = {})
    /\ [][\A s \in Stages :
            (pc[s] = "running" /\ batch[s] = <<>>) =>
                /\ queue' = queue
                /\ stores' = stores
                /\ pc'[s] \in {"running", "returned"}]_vars

C20_Witness ==
    \E s \in Stages :
        /\ Returned(s)
        /\ batch[s] = <<>>
        /\ resumes # [r \in ResumeIds |-> NoResume]

\* C21: replaying the same Parse message leaves the parsed-text record of the
\* resume with the content a single delivery gave it (last write wins), and
\* each delivery enqueues one Extract message, never more. Without an upload
\* the Parse messages of a resume are deliveries of one message, so a record
\* that already holds a delivery's processingId and is stored again is a replay.
C21_ParseReplayIdempotent ==
    [][/\ \A r \in ResumeIds :
            (/\ uploads' = 0
             /\ resumes[r].processingId # NoId
             /\ resumes'[r].status = "PARSED")
                => resumes'[r] = [resumes[r] EXCEPT !.status = "PARSED"]
       /\ Cardinality(queue'["extractor"]) <= Cardinality(queue["extractor"]) + 1]_vars

\* C22: the status record of a run is created by the upload/enqueue step:
\* while a Parse message of the pipeline is in the Parse queue, a status
\* record exists under its processingId.
C22_StatusRecordCreatedAtEnqueue ==
    \A m \in queue["parser"] :
        m.id > MaxExternal =>
            /\ m.processingId # NoId
            /\ statusStore[m.processingId].status # "NONE"

\* C23: status entries are addressed per run and never shared: the Extract
\* messages of two different runs carry two different status keys.
C23_StatusKeysNotShared ==
    \A m1, m2 \in queue["extractor"] \cup Range(batch["extractor"]) :
        (m1.parent # 0 /\ m2.parent # 0 /\ m1.id # m2.id)
            => m1.processingId # m2.processingId

\* C25: derived records are written only on successful stage completion: an
\* invocation that has stored its results stored none for a message of its
\* failure list.
C25_DerivedRecordsOnlyOnSuccess ==
    \A s \in {"parser", "extractor"} :
        ReturnedNormally(s) =>
            {processingResults[s][i].msg : i \in 1..Len(processingResults[s])}
                \cap Ids(batchItemFailures[s]) = {}

\* C26: a record written by one stage is not mutated by a later stage except
\* for status fields: when the Extractor writes a resume's extracted skills,
\* the fields earlier steps wrote are still there.
C26_EarlierFieldsKept ==
    [][\A r \in ResumeIds :
          (resumes'[r].status = "SKILLS_EXTRACTED" /\ resumes'[r] # resumes[r]) =>
              /\ resumes[r].attrs \cap {"jobId", "candidateEmail", "s3Key", "parsedText",
                                        "processingId"} \subseteq resumes'[r].attrs
              /\ resumes'[r].processingId = resumes[r].processingId]_vars

\* C27: a status write overwrites named fields only: the fields written
\* earlier under the processingId are still there after it.
C27_StatusWritesKeepOtherFields ==
    [][\A p \in Pids :
          /\ statusStore[p].attrs \subseteq statusStore'[p].attrs
          /\ statusStore[p].resumeId # NoId
               => statusStore'[p].resumeId = statusStore[p].resumeId]_vars

\* ------------------------------------------- invocations followed call by call
AllReturned == \A k \in 1..MaxInstances : inst[k].st \in {"free", "done", "acked"}

\* The instances that were handed a message of resume r.
Touching(r) ==
    {k \in 1..MaxInstances :
        \E i \in 1..Len(inst[k].records) : inst[k].records[i].resumeId = r}

\* The ids of the messages an instance was handed.
Handed(k) == {inst[k].records[i].id : i \in 1..Len(inst[k].records)}

\* C24: the last stage to finish wins: when one Extractor invocation derived
\* the Score message of an item, one Scorer invocation scored it (it wrote the
\* score and SCORED), nothing else touched the resume and both invocations
\* have returned, the resume record's status is SCORED, however the calls of
\* the two invocations interleaved.
C24_LastStageToFinishWins ==
    \A k, e \in 1..MaxInstances :
        (/\ AllReturned
         /\ uploads = 0
         /\ inst[k].stage = "scorer"
         /\ inst[e].stage = "extractor")
            => \A i \in inst[k].finished :
                  LET m == inst[k].records[i]
                  IN (m.parent \in Handed(e) /\ Touching(m.resumeId) = {k, e})
                        => resumes[m.resumeId].status = "SCORED"

\* C28: when the Scorer writes COMPLETED for a message, the score record of
\* the message's (resumeId, jobId) exists and the resume record carries the
\* status SCORED; the COMPLETED write is the last call of the item.
C28_CompletedAfterScoreAndStatus ==
    [][\A k \in 1..MaxInstances :
          LET me == inst[k]
          IN (/\ uploads' = 0
              /\ me.st = "call"
              /\ me.stage = "scorer"
              /\ me.at = ScorerCalls
              /\ me.i \in inst'[k].finished)
                => /\ \E it \in scores :
                         it.id = ScoreId(Current(me).resumeId, Current(me).jobId)
                   /\ resumes[Current(me).resumeId].status = "SCORED"
                   /\ inst'[k].log[Len(inst'[k].log)] = <<me.i, ScorerCalls>>]_vars

\* The deliveries of message m: instance and record index.
Deliveries(m) ==
    {d \in (1..MaxInstances) \X (1..MaxBatch) :
        d[2] <= Len(inst[d[1]].records) /\ inst[d[1]].records[d[2]] = m}

\* Every message that carries m's processingId or names m's resume is a
\* delivery of m to a Scorer instance that scored it and has returned.
OnlyScoredDeliveries(m) ==
    \A k \in 1..MaxInstances : \A i \in 1..Len(inst[k].records) :
        LET other == inst[k].records[i]
        IN (other.processingId = m.processingId \/ other.resumeId = m.resumeId)
              => /\ other = m
                 /\ inst[k].stage = "scorer"
                 /\ inst[k].st \in {"done", "acked"}
                 /\ i \in inst[k].finished

\* C29: when the same Score message was delivered more than once, to Scorer
\* instances that may have run at the same time, and every delivery succeeded,
\* there is exactly one score record for the pair (resumeId, jobId) and the
\* processing status is COMPLETED.
C29_DuplicateScoreDelivery ==
    \A m \in UNION {Range(inst[k].records) : k \in 1..MaxInstances} :
        (/\ uploads = 0
         /\ m.type = "SCORING"
         /\ Cardinality(Deliveries(m)) >= 2
         /\ OnlyScoredDeliveries(m))
            => /\ Cardinality({it \in scores : it.resumeId = m.resumeId
                                                /\ it.jobId = m.jobId}) = 1
               /\ statusStore[m.processingId].status = PROCESSING_STATUS.COMPLETED

C29_Witness ==
    \E m \in UNION {Range(inst[k].records) : k \in 1..MaxInstances} :
        /\ uploads = 0
        /\ m.type = "SCORING"
        /\ Cardinality(Deliveries(m)) >= 2
        /\ OnlyScoredDeliveries(m)
        \* the two ran at the same time: the last COMPLETED write found the
        \* COMPLETED of the other instance, written after its own SCORING
        /\ statusWrites[m.processingId] =
              <<PROCESSING_STATUS.COMPLETED, PROCESSING_STATUS.COMPLETED>>

C31_ParserEndOfStageStatus ==
    \A i \in 1..Len(processingResults["parser"]) :
        LET entry == processingResults["parser"][i]
        IN entry.msg \in advanced["parser"] =>
              /\ statusWrites[entry.processingId] =
                    <<PROCESSING_STATUS.PARSING, PROCESSING_STATUS.EXTRACTING_SKILLS>>
              /\ resumes[entry.resumeId].status = "PARSED"
              /\ entry.msg \in fwd["parser"]

\* C32: the Extractor writes EXTRACTING_SKILLS at the start of a message and
\* COMPLETED before it hands off: a step that enqueues the Score message of a
\* record has written EXTRACTING_SKILLS, then COMPLETED, under the record's
\* processingId, and no record is forwarded whose COMPLETED write failed.
C32_CompletedBeforeHandoff ==
    /\ [](fwd["extractor"] \subseteq advanced["extractor"])
    /\ [][(InLoop("extractor") /\ fwd'["extractor"] # fwd["extractor"]) =>
             LET record == Record("extractor")
                 trail == statusWrites'[record.processingId]
             IN /\ Len(trail) >= 3
                /\ trail[2] = PROCESSING_STATUS.EXTRACTING_SKILLS
                /\ trail[3] = PROCESSING_STATUS.COMPLETED
                /\ \E m \in queue'["scorer"] \ queue["scorer"] : m.parent = record.id]_vars

C32_Witness ==
    /\ fwd["extractor"] # {}
    /\ \E m \in queue["scorer"] : m.parent \in fwd["extractor"]

\* ------------------------------------------------------- what is retried
\* How often an instance has made the call of a record.
Attempts(log, i, call) == Cardinality({a \in 1..Len(log) : log[a] = <<i, call>>})

StorageWrites(stage) ==
    CASE stage = "parser" -> {1, 4}
      [] stage = "extractor" -> {1, 4, 6}
      [] stage = "scorer" -> {1, 3, 4, 5}
      [] OTHER -> {}

AtStorageWrite(me) ==
    \/ me.st = "call" /\ me.at \in StorageWrites(me.stage)
    \/ me.st \in {"catch", "after"}

\* The number under which the call an instance is at is logged.
CallNo(me) ==
    IF me.st = "catch"
      THEN (IF me.stage = "scorer" THEN ScorerCalls ELSE ExtractorCalls) + 1
      ELSE me.at

\* The call the instance was at threw, as far as the instance shows it.
Threw(me, now) ==
    \/ Len(now.failures) > Len(me.failures)
    \/ me.st = "call" /\ now.st = "catch"
    \/ now.st = "done" /\ now.response = handlerFailure

C35_DelayGrowsWithAttempts ==
    retry.pc # "none" =>
        /\ \A n \in 1..Len(retry.waits) : retry.waits[n] = n * 1000
        /\ \A n \in 2..Len(retry.waits) : retry.waits[n] > retry.waits[n - 1]
        /\ Len(retry.waits) <= maxAttempts - 1
        /\ retry.pc = "loop" => Len(retry.waits) = retry.attempts
        /\ (retry.pc = "thrown" /\ retry.hasText) => Len(retry.waits) = retry.attempts - 1

C35_Witness ==
    /\ retry.pc = "thrown"
    /\ retry.attempts = maxAttempts
    /\ retry.waits = <<1000, 2000>>

\* C37: the Extractor strips an optional markdown fence before parsing: a
\* JSON object wrapped in a fence is taken like the bare object, so the call
\* that got it returns without another attempt.
C37_FencedReplyParsed ==
    \A n \in 1..maxAttempts :
        (/\ retry.pc # "none"
         /\ retry.calls >= n
         /\ retry.replies[n] = "fenced")
            => /\ retry.calls = n
               /\ retry.pc = "returned"

\* ------------------------------------------------------ helper functions
\* C36: the text submitted to the inference service never exceeds the
\* maximum character count, and a text within the maximum is submitted
\* unchanged.
C36_SubmittedTextBounded ==
    helper.pc = "prompt" =>
        /\ Length(helper.submitted) <= maxLength
        /\ Length(helper.resumeText) <= maxLength => helper.submitted = helper.resumeText

\* C38: the extraction races a 30-second timer and the first to settle wins:
\* when the timer fires first the item fails with the timeout at that moment
\* and the invocation does not wait any longer, and when the extraction
\* settles first its text (or its error) is the item's result, whatever the
\* timer does afterwards.
C38_TimerRace ==
    helper.pc = "race" =>
        /\ helper.now > timeout => helper.item # "none"
        /\ helper.item # "none" =>
              LET pdf == helper.pdf
              IN /\ (pdf.as = "hangs" \/ pdf.at > timeout) =>
                       /\ helper.race = "timeout"
                       /\ helper.item = "failed"
                       /\ helper.resumedAt = timeout
                 /\ (pdf.as # "hangs" /\ pdf.at < timeout) =>
                       /\ helper.race = pdf.as
                       /\ helper.item = (IF pdf.as = "text" THEN "parsed" ELSE "failed")
                       /\ helper.resumedAt = pdf.at

C38_Witness ==
    /\ helper.pc = "race"
    /\ helper.pdf.as = "text"
    /\ helper.pdf.at > timeout
    /\ helper.timerFired
    /\ helper.pdfSettled
    /\ helper.item = "failed"

\* The batches sent so far, one after the other.
RECURSIVE Flatten(_)
Flatten(batches) ==
    IF batches = <<>> THEN <<>> ELSE Head(batches) \o Flatten(Tail(batches))

\* C39: a batched write of k items issues ceil(k/25) write calls, each with
\* at most 25 items, and the calls taken in order carry every item once, in
\* input order.
C39_BatchedWrites ==
    helper.pc \in {"slicing", "sending", "returned", "thrown"} =>
        LET k == Len(helper.items)
            written == Flatten(helper.sent)
        IN /\ \A b \in 1..Len(helper.sent) :
                 Len(helper.sent[b]) >= 1 /\ Len(helper.sent[b]) <= 25
           /\ Len(written) <= k
           /\ written = SubSeq(helper.items, 1, Len(written))
           /\ helper.pc = "returned" =>
                 /\ written = helper.items
                 /\ Len(helper.sent) = (k + 24) \div 25

C39_Witness ==
    /\ helper.pc = "returned"
    /\ Len(helper.items) = 51
    /\ Len(helper.sent) = 3

====
